---- MODULE Spec2Model ----
(***************************************************************************)
(* Polygon zkEVM plugin: the action handlers getGasPrice, getStorageAt,    *)
(* getTransactionReceipt, getBlockDetailsByNumber and getBatchInfo.        *)
(*                                                                         *)
(* One handler invocation is modelled at the granularity of its awaits:    *)
(* the settings lookup and configuration check, the LLM extraction call,   *)
(* each provider/network request, and the callback calls the handler makes *)
(* on the way out.  What the outside world answers (the LLM, the provider, *)
(* the host's callback) is chosen nondeterministically at the call.        *)
(***************************************************************************)
EXTENDS Integers, Sequences, FiniteSets, TLC

VARIABLES
    alchemyApiKey,   \* runtime.getSetting('ALCHEMY_API_KEY') is truthy
    zkevmRpcUrl,     \* runtime.getSetting('ZKEVM_RPC_URL') is truthy
    handler,         \* the action whose handler is running ("none" before the call)
    callback,        \* TRUE iff the host passed a callback (callback !== undefined)
    text,            \* message.content.text: undefined or a string
    pc,              \* where the invocation stands
    llmCalls,        \* number of LLM calls made by this invocation
    llmAnswer,       \* what the LLM call produced
    netLog,          \* the provider/network requests issued, in order
    cbLog,           \* the callback invocations made, in order
    methodUsed,      \* the handler's local methodUsed
    blockDetails,    \* getBlockDetailsByNumber's local blockDetails ("null" or "block")
    errorMessages,   \* the handler's local errorMessages
    result,          \* what the handler's promise settled to
    runtimeSettings, \* what runtime.getSetting returns for each configuration key
    env,             \* process.env for each configuration key
    configToValidate,\* plugin.init's local configToValidate (NotBuilt before init)
    initResult,      \* how plugin.init ended: "none", "ok" or the Error it threw
    validateResult   \* what the last call of an action's validate resolved to

\* What plugin.init and validate read and write; no handler touches it.
pluginVars == <<runtimeSettings, env, configToValidate, initResult, validateResult>>

vars == <<alchemyApiKey, zkevmRpcUrl, handler, callback, text, pc, llmCalls,
          llmAnswer, netLog, cbLog, methodUsed, blockDetails, errorMessages, result,
          runtimeSettings, env, configToValidate, initResult, validateResult>>

(***************************************************************************)
(* Bounds of the model.                                                    *)
(***************************************************************************)
\* Largest number the LLM extracts (block number, batch number, slot).
MaxNum == 2
\* An extracted number of more than one hexadecimal digit.
BigNum == 26

(***************************************************************************)
(* JavaScript values that the handlers test for truthiness and type.       *)
(***************************************************************************)
Undefined == [t |-> "undefined", v |-> 0]
Null == [t |-> "null", v |-> 0]
NaN == [t |-> "number", v |-> 0, nan |-> TRUE]
Num(n) == [t |-> "number", v |-> n, nan |-> FALSE]
Str(n) == [t |-> "string", v |-> n]   \* the decimal string of n (never empty)

\* JavaScript truthiness: !x is ~Truthy(x)
Truthy(x) ==
    CASE x.t = "undefined" -> FALSE
      [] x.t = "null" -> FALSE
      [] x.t = "number" -> (~x.nan /\ x.v # 0)
      [] x.t = "string" -> TRUE

TypeofNumber(x) == x.t = "number"

Handlers == {"getGasPrice", "getStorageAt", "getTransactionReceipt",
             "getBlockDetailsByNumber", "getBatchInfo"}

\* Endpoints a request can go to.
AlchemyEndpoint == "alchemy"
RpcEndpoint == "ZKEVM_RPC_URL"
DefaultRpcEndpoint == "https://zkevm-rpc.com"

\* How a call of the host's callback can end: it returns (or its promise
\* resolves), it throws synchronously, or the promise it returns rejects.
CbOutcomes == {"ok", "throw", "reject"}

(***************************************************************************)
(* Error messages of the handlers (the fixed part of each).                *)
(***************************************************************************)
ConfigError == "ALCHEMY_API_KEY or ZKEVM_RPC_URL is required in configuration."
GasPriceError == "Failed to retrieve gas price"
StorageExtractError == "[getStorageAtAction] Failed to extract storage parameters from input"
BlockLLMError == "[getBlockDetailsByNumberAction] OBJECT_LARGE model failed"
BlockInvalidError == "Invalid block number extracted from input"
BlockFailedError == "Failed to retrieve details for Polygon zkEVM block"
BatchExtractError == "[getBatchInfoAction] Failed to extract batch number from input"
BatchFailedError == "Failed to retrieve batch information for batch"
NoHashError == "Please provide a valid transaction hash (0x... 64 characters) to get the transaction receipt."
ReceiptNotFoundError == "Transaction receipt not found"
ReceiptCatchError == "Error getting transaction receipt"

(***************************************************************************)
(* Results.  kind: "pending" while the handler runs, "returned" when its   *)
(* promise resolved to an ActionResult, "rejected" when it rejected.       *)
(***************************************************************************)
Pending == [kind |-> "pending", success |-> FALSE, error |-> "none",
            status |-> "none", method |-> "none",
            hasError |-> FALSE, valuesError |-> FALSE, actionName |-> "none"]
\* Action.name of the five actions.
ActionNames ==
    [h \in Handlers |->
        CASE h = "getGasPrice" -> "POLYGON_ZKEVM_GET_GAS_PRICE"
          [] h = "getStorageAt" -> "POLYGON_ZKEVM_GET_STORAGE"
          [] h = "getTransactionReceipt" -> "POLYGON_ZKEVM_GET_TRANSACTION_RECEIPT"
          [] h = "getBlockDetailsByNumber" -> "POLYGON_ZKEVM_GET_BLOCK_DETAILS_BY_NUMBER"
          [] h = "getBatchInfo" -> "POLYGON_ZKEVM_GET_BATCH_INFO"]
\* (CopiedActionName: the receipt action, which lives in getStorageAt.ts,
\* reporting the name of its neighbour.)
CopiedActionName(h) ==
    IF h = "getTransactionReceipt" THEN "POLYGON_ZKEVM_GET_STORAGE" ELSE ActionNames[h]
\* The literal written as data.actionName in the results of handler h.
ReportedActionName(h) ==
    CASE h = "getGasPrice" -> "POLYGON_ZKEVM_GET_GAS_PRICE"
      [] h = "getStorageAt" -> "POLYGON_ZKEVM_GET_STORAGE"
      [] h = "getTransactionReceipt" -> "POLYGON_ZKEVM_GET_TRANSACTION_RECEIPT"
      [] h = "getBlockDetailsByNumber" -> "POLYGON_ZKEVM_GET_BLOCK_DETAILS_BY_NUMBER"
      [] h = "getBatchInfo" -> "POLYGON_ZKEVM_GET_BATCH_INFO"
\* The object a handler returns.  error is data.error (the message, "none"
\* when unset), hasError the presence of the top-level `error` field,
\* valuesError is values.error, actionName is data.actionName.  The literal of
\* a success result has none of the three error fields.
ActionResult(success, error, status, method) ==
    [kind |-> "returned", success |-> success, error |-> error,
     status |-> status, method |-> method,
     hasError |-> FALSE, valuesError |-> FALSE,
     actionName |-> ReportedActionName(handler)]
\* (FailureWithoutErrorField: a failure literal that omits `error: new Error(...)`.)
FailureWithoutErrorField(error) ==
    [ActionResult(FALSE, error, "none", "none") EXCEPT !.valuesError = TRUE]
\* { success: false, values: { error: true, ... }, data: { error }, error: new Error(...) }
Failure(error) ==
    [ActionResult(FALSE, error, "none", "none") EXCEPT !.hasError = TRUE, !.valuesError = TRUE]
Rejected(why) == [kind |-> "rejected", success |-> FALSE, error |-> why,
                  status |-> "none", method |-> "none",
                  hasError |-> FALSE, valuesError |-> FALSE, actionName |-> "none"]

NoAnswer == [kind |-> "none", error |-> FALSE, address |-> FALSE, num |-> Undefined]
\* A request sent to an endpoint and how it ended; status is receipt.status
\* when the answer is a transaction receipt; param is the block parameter of
\* eth_getBlockByNumber, a string as the sequence of its characters.
Request(endpoint, method, outcome) ==
    [endpoint |-> endpoint, method |-> method, outcome |-> outcome, status |-> Undefined,
     param |-> <<>>]
ReceiptAnswer(endpoint, status) ==
    [endpoint |-> endpoint, method |-> "getTransactionReceipt", outcome |-> "value",
     status |-> status, param |-> <<>>]
CbCall(success, outcome) == [success |-> success, outcome |-> outcome]

(***************************************************************************)
(* The check every handler but getTransactionReceipt starts with:          *)
(* if (!alchemyApiKey && !zkevmRpcUrl)                                     *)
(***************************************************************************)
\* (ConfigCheckSkipped: a handler that lacks the check.)
ConfigCheckSkipped(key, url) == FALSE
ConfigMissing(key, url) == ~key /\ ~url

(***************************************************************************)
(* Provider selection of getGasPrice, getStorageAt and getBatchInfo:       *)
(* Alchemy when the key is set, else ZKEVM_RPC_URL.                        *)
(***************************************************************************)
\* (SelectRpcAlways: a handler that ignores the key and always uses ZKEVM_RPC_URL.)
SelectRpcAlways(key) == RpcEndpoint
SelectProvider(key) == IF key THEN AlchemyEndpoint ELSE RpcEndpoint
SelectMethod(key) == IF key THEN "alchemy" ELSE "rpc"

(***************************************************************************)
(* if (x?.error) throw ...: the LLM call "failed" when it threw (timeout   *)
(* included) or when the object it returned has a truthy error field.      *)
(***************************************************************************)
\* (LLMFailedThrowOnly: a handler that overlooks the error field.)
LLMFailedThrowOnly(ans) == ans.kind = "threw"
LLMFailed(ans) == ans.kind = "threw" \/ (ans.kind = "object" /\ ans.error)

\* What the LLM call can produce for a handler.
ThrewAnswer == [kind |-> "threw", error |-> FALSE, address |-> FALSE, num |-> Undefined]
NumValues ==
    {Undefined, NaN, Num(BigNum)} \cup {Num(n) : n \in -1..MaxNum} \cup {Str(n) : n \in 0..MaxNum}
ObjectAnswers(addresses, nums) ==
    {[kind |-> "object", error |-> e, address |-> a, num |-> n] :
        e \in BOOLEAN, a \in addresses, n \in nums}
LLMAnswers(h) ==
    {ThrewAnswer} \cup
    CASE h = "getGasPrice" -> ObjectAnswers({FALSE}, {Undefined})
      [] h = "getStorageAt" -> ObjectAnswers(BOOLEAN, NumValues)
      [] OTHER -> ObjectAnswers({FALSE}, NumValues)

(***************************************************************************)
(* Calls of the host's callback.                                           *)
(***************************************************************************)
AllOk(log) == \A i \in 1..Len(log) : log[i].outcome = "ok"

\* (ReturnWithoutCallback: a result branch that forgets the callback.)
ReturnWithoutCallback(success, r) == cbLog' = cbLog /\ result' = r
\* if (callback) { await callback({... success ...}); } return r;
\* outside any try: a failing callback makes the handler reject.
AwaitCallbackThenReturn(success, r) ==
    IF ~callback
    THEN cbLog' = cbLog /\ result' = r
    ELSE \E o \in CbOutcomes :
            /\ cbLog' = Append(cbLog, CbCall(success, o))
            /\ result' = IF o = "ok" THEN r ELSE Rejected("callback")

(***************************************************************************)
(* Configuration values.  A value is what runtime.getSetting(key) or        *)
(* process.env[key] holds: nothing (null/undefined), the empty string, a    *)
(* non-empty string that is no URL, or a well-formed URL; `from` tells the   *)
(* two sources apart.                                                       *)
(***************************************************************************)
ConfigKeys == {"ALCHEMY_API_KEY", "ZKEVM_RPC_URL", "PRIVATE_KEY"}
SettingKinds == {"absent", "empty", "text", "url"}
SettingValues(kinds, from) == {[kind |-> k, from |-> from] : k \in kinds}

\* JavaScript truthiness of a configuration value: only a non-empty string.
SettingTruthy(v) == v.kind \in {"text", "url"}

(***************************************************************************)
(* message.content.text: undefined, or a string as the sequence of its     *)
(* characters.                                                             *)
(***************************************************************************)
UndefinedText == [defined |-> FALSE, chars |-> <<>>]
Text(chars) == [defined |-> TRUE, chars |-> chars]
\* The length of the hexadecimal run in /0x[a-fA-F0-9]{64}/.
HashLen == 64
\* The class [a-fA-F0-9].
RegexHexChars ==
    {"0", "1", "2", "3", "4", "5", "6", "7", "8", "9",
     "a", "b", "c", "d", "e", "f", "A", "B", "C", "D", "E", "F"}
\* The pattern matches in s at position i.
MatchAt(s, i) ==
    /\ i + 1 + HashLen <= Len(s)
    /\ s[i] = "0" /\ s[i + 1] = "x"
    /\ \A k \in 1..HashLen : s[i + 1 + k] \in RegexHexChars
NoMatch == <<>>
\* (MatchAtStart: the pattern anchored at the start of the text.)
MatchAtStart(s) == IF MatchAt(s, 1) THEN SubSeq(s, 1, 2 + HashLen) ELSE NoMatch
\* text.match(/0x[a-fA-F0-9]{64}/)[0]: the leftmost match, NoMatch for null.
TxHashMatch(s) ==
    LET starts == {i \in 1..Len(s) : MatchAt(s, i)}
    IN IF starts = {} THEN NoMatch
       ELSE LET first == CHOOSE i \in starts : \A j \in starts : i <= j
            IN SubSeq(s, first, first + 1 + HashLen)

\* Message texts: no hash, a hash, a run one digit short, a longer run, two
\* hashes after other words, an upper-case "0X", a false start before a hash.
Run(c, n) == [i \in 1..n |-> c]
SampleTexts ==
    { <<"h", "i">>,
      <<"0", "x">> \o Run("a", HashLen),
      <<"0", "x">> \o Run("a", HashLen - 1),
      <<"0", "x">> \o Run("b", HashLen) \o <<"c", "d">>,
      <<"t", "x", " ", "0", "x">> \o Run("A", HashLen) \o <<" ", "0", "x">> \o Run("b", HashLen),
      <<"0", "X">> \o Run("a", HashLen),
      <<"0", "x", "a", "0", "x">> \o Run("c", HashLen) }

\* configToValidate before init has built it.
NotBuilt == [k \in ConfigKeys |-> [kind |-> "absent", from |-> "none"]]
\* The state before any call, with the settings and the environment drawn
\* from the given kinds of value.
Start(settingKinds, envKinds) ==
    /\ runtimeSettings \in [ConfigKeys -> SettingValues(settingKinds, "runtime")]
    /\ env \in [ConfigKeys -> SettingValues(envKinds, "env")]
    /\ alchemyApiKey = SettingTruthy(runtimeSettings["ALCHEMY_API_KEY"])
    /\ zkevmRpcUrl = SettingTruthy(runtimeSettings["ZKEVM_RPC_URL"])
    /\ configToValidate = NotBuilt
    /\ initResult = "none"
    /\ validateResult = [action |-> "none", value |-> FALSE]
    /\ handler = "none"
    /\ callback = FALSE
    /\ text = UndefinedText
    /\ pc = "idle"
    /\ llmCalls = 0
    /\ llmAnswer = NoAnswer
    /\ netLog = <<>>
    /\ cbLog = <<>>
    /\ methodUsed = "null"
    /\ blockDetails = "null"
    /\ errorMessages = <<>>
    /\ result = Pending

\* The handlers read the settings only through runtime.getSetting and only for
\* truthiness, and never read the environment: each setting is set or not.
Init == Start({"absent", "url"}, {"absent"})

(***************************************************************************)
(* plugin.init                                                             *)
(***************************************************************************)
PluginStart == Start(SettingKinds, SettingKinds)

\* (EnvFirst: an init that lets the environment win.)
EnvFirst(a, b) == IF SettingTruthy(b) THEN b ELSE a
\* a || b
Or(a, b) == IF SettingTruthy(a) THEN a ELSE b

\* z.string().min(1, ...).optional(): undefined passes, '' does not.
KeyValid(v) == v.kind # "empty"
\* (UrlAnyString: a schema whose ZKEVM_RPC_URL lacks .url().)
UrlAnyString(v) == TRUE
\* z.string().url(...).optional(): undefined or a well-formed URL.
UrlValid(v) == v.kind \in {"absent", "url"}
\* .refine((data) => data.ALCHEMY_API_KEY || data.ZKEVM_RPC_URL)
OneProvider(c) == SettingTruthy(c["ALCHEMY_API_KEY"]) \/ SettingTruthy(c["ZKEVM_RPC_URL"])
\* (SchemaProviderOnly: a schema that only asks for one provider.)
SchemaProviderOnly(c) == OneProvider(c)
\* configSchema.parseAsync(c) resolves
ConfigSchemaAccepts(c) ==
    /\ KeyValid(c["ALCHEMY_API_KEY"])
    /\ UrlValid(c["ZKEVM_RPC_URL"])
    /\ KeyValid(c["PRIVATE_KEY"])
    /\ OneProvider(c)

InitError == "Invalid Polygon zkEVM plugin configuration: "

\* init(_config, runtime): build configToValidate, parse it, throw on a ZodError.
PluginInit ==
    /\ pc = "idle" /\ initResult = "none"
    /\ configToValidate' = [k \in ConfigKeys |-> Or(runtimeSettings[k], env[k])]
    /\ initResult' = IF ConfigSchemaAccepts(configToValidate') THEN "ok" ELSE InitError
    /\ UNCHANGED <<alchemyApiKey, zkevmRpcUrl, handler, callback, text, pc, llmCalls,
                   llmAnswer, netLog, cbLog, methodUsed, blockDetails, errorMessages,
                   result, runtimeSettings, env, validateResult>>

(***************************************************************************)
(* validate (the same body in all five actions)                            *)
(***************************************************************************)
\* (ValidateKeyOnly: a validate that looks at the Alchemy key alone.)
ValidateKeyOnly(key, url) == key
\* if (!alchemyApiKey && !zkevmRpcUrl) { return false; } return true;
ValidateResult(key, url) == IF ~key /\ ~url THEN FALSE ELSE TRUE

\* The host calls action.validate(runtime, message, state), at any time.
Validate ==
    /\ \E h \in Handlers :
        validateResult' =
            [action |-> h,
             value |-> ValidateResult(SettingTruthy(runtimeSettings["ALCHEMY_API_KEY"]),
                                      SettingTruthy(runtimeSettings["ZKEVM_RPC_URL"]))]
    /\ UNCHANGED <<alchemyApiKey, zkevmRpcUrl, handler, callback, text, pc, llmCalls,
                   llmAnswer, netLog, cbLog, methodUsed, blockDetails, errorMessages,
                   result, runtimeSettings, env, configToValidate, initResult>>

\* The host runtime calls action.handler(runtime, message, state, options, callback).
Invoke ==
    /\ pc = "idle"
    /\ UNCHANGED pluginVars
    /\ \E h \in Handlers, cb \in BOOLEAN,
          t \in {UndefinedText} \cup {Text(chars) : chars \in SampleTexts} :
        /\ handler' = h
        /\ callback' = cb
        /\ text' = IF h = "getTransactionReceipt" THEN t ELSE Text(<<"h", "i">>)
    /\ pc' = "start"
    /\ UNCHANGED <<alchemyApiKey, zkevmRpcUrl, llmCalls, llmAnswer, netLog, cbLog,
                   methodUsed, blockDetails, errorMessages, result>>

(***************************************************************************)
(* getGasPrice                                                             *)
(***************************************************************************)
\* if (callback) { callback({...}); } return r;  -- the call is not awaited, so
\* only a synchronous throw reaches the handler.  Outside the try (lines 51-71).
GasCallbackThenReturn(success, r) ==
    IF ~callback
    THEN cbLog' = cbLog /\ result' = r
    ELSE \E o \in CbOutcomes :
            /\ cbLog' = Append(cbLog, CbCall(success, o))
            /\ result' = IF o = "throw" THEN Rejected("callback") ELSE r

\* The catch block of lines 172-197: callback (not awaited), then the failure result.
GasCatch(log) ==
    IF ~callback
    THEN cbLog' = log /\ result' = Failure(GasPriceError)
    ELSE \E o \in CbOutcomes :
            /\ cbLog' = Append(log, CbCall(FALSE, o))
            /\ result' = IF o = "throw" THEN Rejected("callback")
                         ELSE Failure(GasPriceError)

\* Lines 44-72: the settings lookup and the configuration check.
GasConfig ==
    /\ handler = "getGasPrice" /\ pc = "start"
    /\ UNCHANGED pluginVars
    /\ IF ConfigMissing(alchemyApiKey, zkevmRpcUrl)
       THEN /\ GasCallbackThenReturn(FALSE, Failure(ConfigError))
            /\ pc' = "done"
       ELSE /\ pc' = "llm"
            /\ UNCHANGED <<cbLog, result>>
    /\ UNCHANGED <<alchemyApiKey, zkevmRpcUrl, handler, callback, text, llmCalls,
                   llmAnswer, netLog, methodUsed, blockDetails, errorMessages>>

\* A getGasPrice that reported the LLM failure as the other handlers do.
GasLLMReporting ==
    /\ handler = "getGasPrice" /\ pc = "llm"
    /\ UNCHANGED pluginVars
    /\ \E ans \in LLMAnswers("getGasPrice") :
        /\ llmAnswer' = ans
        /\ IF LLMFailed(ans)
           THEN GasCallbackThenReturn(FALSE, Failure(GasPriceError)) /\ pc' = "done"
           ELSE UNCHANGED <<cbLog, result>> /\ pc' = "gasPrice"
    /\ llmCalls' = llmCalls + 1
    /\ methodUsed' = SelectMethod(alchemyApiKey)
    /\ UNCHANGED <<alchemyApiKey, zkevmRpcUrl, handler, callback, text, netLog,
                   blockDetails, errorMessages>>

\* Lines 74-101: the LLM call, whose failure is caught and only logged
\* ('LLM validation failed, proceeding anyway'), then the provider setup.
GasLLM ==
    /\ handler = "getGasPrice" /\ pc = "llm"
    /\ UNCHANGED pluginVars
    /\ \E ans \in LLMAnswers("getGasPrice") : llmAnswer' = ans
    /\ llmCalls' = llmCalls + 1
    /\ methodUsed' = SelectMethod(alchemyApiKey)
    /\ pc' = "gasPrice"
    /\ UNCHANGED <<alchemyApiKey, zkevmRpcUrl, handler, callback, text, netLog, cbLog,
                   blockDetails, errorMessages, result>>

\* A getGasPrice whose eth_gasPrice call sits outside the try.
GasPriceUncaught ==
    /\ handler = "getGasPrice" /\ pc = "gasPrice"
    /\ UNCHANGED pluginVars
    /\ \E o \in {"throw", "value"} :
        /\ netLog' = Append(netLog, Request(SelectProvider(alchemyApiKey), "eth_gasPrice", o))
        /\ IF o = "throw"
           THEN result' = Rejected("network") /\ pc' = "done"
           ELSE result' = result /\ pc' = "feeData"
    /\ UNCHANGED <<alchemyApiKey, zkevmRpcUrl, handler, callback, text, llmCalls,
                   llmAnswer, cbLog, methodUsed, blockDetails, errorMessages>>

\* Lines 103-107 and 172-197: provider.send('eth_gasPrice'); a throw goes to the catch.
GasPrice ==
    /\ handler = "getGasPrice" /\ pc = "gasPrice"
    /\ UNCHANGED pluginVars
    /\ \E o \in {"throw", "value"} :
        /\ netLog' = Append(netLog, Request(SelectProvider(alchemyApiKey), "eth_gasPrice", o))
        /\ IF o = "throw"
           THEN GasCatch(cbLog) /\ pc' = "done"
           ELSE UNCHANGED <<cbLog, result>> /\ pc' = "feeData"
    /\ UNCHANGED <<alchemyApiKey, zkevmRpcUrl, handler, callback, text, llmCalls,
                   llmAnswer, methodUsed, blockDetails, errorMessages>>

\* A getGasPrice whose getFeeData call has no try of its own: a throw goes to
\* the outer catch.
GasFeeDataUncaught ==
    /\ handler = "getGasPrice" /\ pc = "feeData"
    /\ UNCHANGED pluginVars
    /\ \E o \in {"throw", "value"} :
        /\ netLog' = Append(netLog, Request(SelectProvider(alchemyApiKey), "getFeeData", o))
        /\ IF o = "throw"
           THEN GasCatch(cbLog)
           ELSE GasCallbackThenReturn(TRUE, ActionResult(TRUE, "none", "none", methodUsed))
    /\ pc' = "done"
    /\ UNCHANGED <<alchemyApiKey, zkevmRpcUrl, handler, callback, text, llmCalls,
                   llmAnswer, methodUsed, blockDetails, errorMessages>>

\* Lines 109-171: provider.getFeeData() in its own try, the text, the callback
\* (inside the outer try, not awaited) and the success result.
GasFeeData ==
    /\ handler = "getGasPrice" /\ pc = "feeData"
    /\ UNCHANGED pluginVars
    /\ \E o \in {"throw", "value"} :
        netLog' = Append(netLog, Request(SelectProvider(alchemyApiKey), "getFeeData", o))
    /\ IF ~callback
       THEN cbLog' = cbLog /\ result' = ActionResult(TRUE, "none", "none", methodUsed)
       ELSE \E o1 \in CbOutcomes :
              IF o1 = "throw"
              THEN GasCatch(Append(cbLog, CbCall(TRUE, o1)))
              ELSE /\ cbLog' = Append(cbLog, CbCall(TRUE, o1))
                   /\ result' = ActionResult(TRUE, "none", "none", methodUsed)
    /\ pc' = "done"
    /\ UNCHANGED <<alchemyApiKey, zkevmRpcUrl, handler, callback, text, llmCalls,
                   llmAnswer, methodUsed, blockDetails, errorMessages>>

(***************************************************************************)
(* getStorageAt                                                            *)
(***************************************************************************)
\* Lines 53-73: the settings lookup and the configuration check.
StorConfig ==
    /\ handler = "getStorageAt" /\ pc = "start"
    /\ UNCHANGED pluginVars
    /\ IF ConfigMissing(alchemyApiKey, zkevmRpcUrl)
       THEN /\ AwaitCallbackThenReturn(FALSE, Failure(ConfigError))
            /\ pc' = "done"
       ELSE /\ pc' = "llm"
            /\ UNCHANGED <<cbLog, result>>
    /\ UNCHANGED <<alchemyApiKey, zkevmRpcUrl, handler, callback, text, llmCalls,
                   llmAnswer, netLog, methodUsed, blockDetails, errorMessages>>

\* if (!storageInput?.address || !storageInput?.position) throw ... (lines 94-96)
StorParamsInvalid(ans) == ~ans.address \/ ~Truthy(ans.num)

\* Lines 75-134: callLLMWithTimeout, the checks inside the try, the catch that
\* reports the extraction failure, and the provider setup.
StorLLM ==
    /\ handler = "getStorageAt" /\ pc = "llm"
    /\ UNCHANGED pluginVars
    /\ \E ans \in LLMAnswers("getStorageAt") :
        /\ llmAnswer' = ans
        /\ IF LLMFailed(ans) \/ StorParamsInvalid(ans)
           THEN /\ AwaitCallbackThenReturn(FALSE, Failure(StorageExtractError))
                /\ pc' = "done"
                /\ methodUsed' = methodUsed
           ELSE /\ pc' = "getStorage"
                /\ methodUsed' = SelectMethod(alchemyApiKey)
                /\ UNCHANGED <<cbLog, result>>
    /\ llmCalls' = llmCalls + 1
    /\ UNCHANGED <<alchemyApiKey, zkevmRpcUrl, handler, callback, text, netLog,
                   blockDetails, errorMessages>>

\* Lines 136-209: provider.getStorage outside any try (a throw rejects the
\* handler), the interpretation of the value, the callback and the result.
StorGetStorage ==
    /\ handler = "getStorageAt" /\ pc = "getStorage"
    /\ UNCHANGED pluginVars
    /\ \E o \in {"throw", "value"} :
        /\ netLog' = Append(netLog, Request(SelectProvider(alchemyApiKey), "getStorage", o))
        /\ IF o = "throw"
           THEN cbLog' = cbLog /\ result' = Rejected("network")
           ELSE AwaitCallbackThenReturn(TRUE, ActionResult(TRUE, "none", "none", methodUsed))
    /\ pc' = "done"
    /\ UNCHANGED <<alchemyApiKey, zkevmRpcUrl, handler, callback, text, llmCalls,
                   llmAnswer, methodUsed, blockDetails, errorMessages>>

(***************************************************************************)
(* getTransactionReceipt                                                   *)
(***************************************************************************)
\* const status = receipt.status === 1 ? 'Success' : 'Failed'  (line 328)
StatusLine(status) ==
    IF status.t = "number" /\ ~status.nan /\ status.v = 1 THEN "Success" ELSE "Failed"

\* Values of receipt.status.
ReceiptStatuses == {Null} \cup {Num(n) : n \in 0..MaxNum}

\* The catch block of lines 357-369, entered with `log` the callback calls made
\* so far: await callback(...) with no guard, then the failure result.  Without
\* a callback the call itself throws a TypeError, inside the catch.
RcptCatch(log) ==
    IF ~callback
    THEN cbLog' = log /\ result' = Rejected("TypeError")
    ELSE \E o \in CbOutcomes :
            /\ cbLog' = Append(log, CbCall(FALSE, o))
            /\ result' = IF o = "ok" THEN Failure(ReceiptCatchError)
                         ELSE Rejected("callback")

\* (RcptCallbackUncaught: a receipt handler whose callback call sits outside
\* the try, as in getStorageAt.)
RcptCallbackUncaught(success, r) ==
    IF ~callback
    THEN cbLog' = cbLog /\ result' = Rejected("TypeError")
    ELSE \E o \in CbOutcomes :
            /\ cbLog' = Append(cbLog, CbCall(success, o))
            /\ result' = IF o = "ok" THEN r ELSE Rejected("callback")
\* await callback({... success ...}); return r;  inside the try, with no guard:
\* a missing or failing callback throws into the catch block.
RcptCallbackThenReturn(success, r) ==
    IF ~callback
    THEN RcptCatch(cbLog)
    ELSE \E o \in CbOutcomes :
            IF o = "ok"
            THEN cbLog' = Append(cbLog, CbCall(success, o)) /\ result' = r
            ELSE RcptCatch(Append(cbLog, CbCall(success, o)))

\* The endpoint of lines 292-306: Alchemy with the key, else ZKEVM_RPC_URL,
\* else the built-in 'https://zkevm-rpc.com'.
RcptEndpoint(key, url) ==
    IF key THEN AlchemyEndpoint ELSE IF url THEN RpcEndpoint ELSE DefaultRpcEndpoint

\* Lines 271-306: text.match(/0x[a-fA-F0-9]{64}/), which throws a TypeError
\* into the catch when text is undefined, and the provider setup.
\* There is no configuration check in this handler.
RcptMatch ==
    /\ handler = "getTransactionReceipt" /\ pc = "start"
    /\ UNCHANGED pluginVars
    /\ IF ~text.defined
       THEN RcptCatch(cbLog) /\ pc' = "done"
       ELSE IF TxHashMatch(text.chars) = NoMatch
       THEN RcptCallbackThenReturn(FALSE, Failure(NoHashError)) /\ pc' = "done"
       ELSE UNCHANGED <<cbLog, result>> /\ pc' = "getReceipt"
    /\ UNCHANGED <<alchemyApiKey, zkevmRpcUrl, handler, callback, text, llmCalls,
                   llmAnswer, netLog, methodUsed, blockDetails, errorMessages>>

\* provider.getTransactionReceipt(txHash), txHash = txHashMatch[0]  (lines 290, 308)
Querying(request, txHash) == [request EXCEPT !.param = txHash]

\* Lines 308-369: provider.getTransactionReceipt, the not-found branch, the
\* formatting, the callback and the result; any throw goes to the catch.
RcptGetReceipt ==
    /\ handler = "getTransactionReceipt" /\ pc = "getReceipt"
    /\ UNCHANGED pluginVars
    /\ \/ /\ netLog' = Append(netLog, Querying(Request(RcptEndpoint(alchemyApiKey, zkevmRpcUrl),
                                                        "getTransactionReceipt", "throw"),
                                                TxHashMatch(text.chars)))
          /\ RcptCatch(cbLog)
       \/ /\ netLog' = Append(netLog, Querying(Request(RcptEndpoint(alchemyApiKey, zkevmRpcUrl),
                                                        "getTransactionReceipt", "null"),
                                                TxHashMatch(text.chars)))
          /\ RcptCallbackThenReturn(FALSE, Failure(ReceiptNotFoundError))
       \/ \E st \in ReceiptStatuses :
          /\ netLog' = Append(netLog, Querying(ReceiptAnswer(RcptEndpoint(alchemyApiKey, zkevmRpcUrl), st),
                                                TxHashMatch(text.chars)))
          /\ RcptCallbackThenReturn(TRUE, ActionResult(TRUE, "none", StatusLine(st), "none"))
    /\ pc' = "done"
    /\ UNCHANGED <<alchemyApiKey, zkevmRpcUrl, handler, callback, text, llmCalls,
                   llmAnswer, methodUsed, blockDetails, errorMessages>>

(***************************************************************************)
(* getBlockDetailsByNumber                                                 *)
(***************************************************************************)
\* Lines 49-74: the settings lookup and the configuration check.
BlkConfig ==
    /\ handler = "getBlockDetailsByNumber" /\ pc = "start"
    /\ UNCHANGED pluginVars
    /\ IF ConfigMissing(alchemyApiKey, zkevmRpcUrl)
       THEN /\ AwaitCallbackThenReturn(FALSE, Failure(ConfigError))
            /\ pc' = "done"
       ELSE /\ pc' = "llm"
            /\ UNCHANGED <<cbLog, result>>
    /\ UNCHANGED <<alchemyApiKey, zkevmRpcUrl, handler, callback, text, llmCalls,
                   llmAnswer, netLog, methodUsed, blockDetails, errorMessages>>

\* if (!blockNumber || typeof blockNumber !== "number")  (line 128; the same
\* test guards batchNumber in getBatchInfo, lines 99-102)
\* (NumberTypeOnly: a validation that only tests the type.)
NumberTypeOnly(x) == ~TypeofNumber(x)
NumberInvalid(x) == ~Truthy(x) \/ ~TypeofNumber(x)

\* Lines 81-153: callLLMWithTimeout, the error field check, the catch that
\* reports the failure, and the validation of the extracted block number.
BlkLLM ==
    /\ handler = "getBlockDetailsByNumber" /\ pc = "llm"
    /\ UNCHANGED pluginVars
    /\ \E ans \in LLMAnswers("getBlockDetailsByNumber") :
        /\ llmAnswer' = ans
        /\ IF LLMFailed(ans)
           THEN /\ AwaitCallbackThenReturn(FALSE, Failure(BlockLLMError))
                /\ pc' = "done"
           ELSE IF NumberInvalid(ans.num)
           THEN /\ AwaitCallbackThenReturn(FALSE, Failure(BlockInvalidError))
                /\ pc' = "done"
           ELSE /\ pc' = IF alchemyApiKey THEN "alchemy" ELSE "rpc"
                /\ UNCHANGED <<cbLog, result>>
    /\ llmCalls' = llmCalls + 1
    /\ UNCHANGED <<alchemyApiKey, zkevmRpcUrl, handler, callback, text, netLog,
                   methodUsed, blockDetails, errorMessages>>

\* Lines 254-309: the result handling, entered with the locals as given.
BlkFinish(details, method) ==
    IF details # "null"
    THEN AwaitCallbackThenReturn(TRUE, ActionResult(TRUE, "none", "none", method))
    ELSE AwaitCallbackThenReturn(FALSE, Failure(BlockFailedError))

\* if (blockDetails === null && zkevmRpcUrl)  (line 219)
\* (BlkNoFallback: a handler that never falls back to ZKEVM_RPC_URL.)
BlkNoFallback(details, url) == FALSE
BlkFallsBack(details, url) == details = "null" /\ url

\* Number.prototype.toString(16) of an integer: the digits of its magnitude,
\* after a "-" when it is negative.
Radix == 16
HexDigits == <<"0", "1", "2", "3", "4", "5", "6", "7", "8", "9", "a", "b", "c", "d", "e", "f">>
RECURSIVE DigitsOf(_)
DigitsOf(n) ==
    IF n < Radix THEN <<HexDigits[n + 1]>>
    ELSE DigitsOf(n \div Radix) \o <<HexDigits[(n % Radix) + 1]>>
ToString16(n) == IF n < 0 THEN <<"-">> \o DigitsOf(-n) ELSE DigitsOf(n)
\* const blockNumberHex = "0x" + blockNumber.toString(16)  (line 149)
BlockNumberHex(blockNumber) == <<"0", "x">> \o ToString16(blockNumber.v)
\* body: { method: "eth_getBlockByNumber", params: [blockNumberHex, true] }
BlockRequest(blockNumberHex, outcome) ==
    [Request(AlchemyEndpoint, "eth_getBlockByNumber", outcome) EXCEPT !.param = blockNumberHex]

\* What the fetch to Alchemy can end in: fetch or response.json() throws, a
\* non-OK HTTP status, a JSON-RPC error, no result, a result.
AlchemyOutcomes == {"throw", "notOk", "rpcError", "empty", "result"}

\* Lines 155-216: the eth_getBlockByNumber request to Alchemy, made when the
\* key is set; every failure is caught and recorded in errorMessages.
BlkAlchemy ==
    /\ handler = "getBlockDetailsByNumber" /\ pc = "alchemy"
    /\ UNCHANGED pluginVars
    /\ \E o \in AlchemyOutcomes :
        /\ netLog' = Append(netLog, BlockRequest(BlockNumberHex(llmAnswer.num), o))
        /\ blockDetails' = IF o = "result" THEN "block" ELSE "null"
        /\ methodUsed' = IF o = "result" THEN "alchemy" ELSE methodUsed
        /\ errorMessages' = IF o \in {"throw", "notOk", "rpcError"}
                            THEN Append(errorMessages, "Alchemy API failed")
                            ELSE errorMessages
    /\ pc' = "rpc"
    /\ UNCHANGED <<alchemyApiKey, zkevmRpcUrl, handler, callback, text, llmCalls,
                   llmAnswer, cbLog, result>>

\* Lines 218-309: the fallback test, provider.getBlock on ZKEVM_RPC_URL when it
\* holds, and the result handling.
BlkRpc ==
    /\ handler = "getBlockDetailsByNumber" /\ pc = "rpc"
    /\ UNCHANGED pluginVars
    /\ IF BlkFallsBack(blockDetails, zkevmRpcUrl)
       THEN \E o \in {"throw", "null", "block"} :
            /\ netLog' = Append(netLog, Request(RpcEndpoint, "getBlock", o))
            /\ blockDetails' = IF o = "block" THEN "block" ELSE blockDetails
            /\ methodUsed' = IF o = "block" THEN "rpc" ELSE methodUsed
            /\ errorMessages' = IF o = "throw"
                                THEN Append(errorMessages, "JSON-RPC fallback failed")
                                ELSE errorMessages
            /\ BlkFinish(blockDetails', methodUsed')
       ELSE /\ UNCHANGED <<netLog, blockDetails, methodUsed, errorMessages>>
            /\ BlkFinish(blockDetails, methodUsed)
    /\ pc' = "done"
    /\ UNCHANGED <<alchemyApiKey, zkevmRpcUrl, handler, callback, text, llmCalls, llmAnswer>>

(***************************************************************************)
(* getBatchInfo                                                            *)
(***************************************************************************)
\* Lines 57-80: the settings lookup and the configuration check.
BatConfig ==
    /\ handler = "getBatchInfo" /\ pc = "start"
    /\ UNCHANGED pluginVars
    /\ IF ConfigMissing(alchemyApiKey, zkevmRpcUrl)
       THEN /\ AwaitCallbackThenReturn(FALSE, Failure(ConfigError))
            /\ pc' = "done"
       ELSE /\ pc' = "llm"
            /\ UNCHANGED <<cbLog, result>>
    /\ UNCHANGED <<alchemyApiKey, zkevmRpcUrl, handler, callback, text, llmCalls,
                   llmAnswer, netLog, methodUsed, blockDetails, errorMessages>>

\* Lines 82-143: callLLMWithTimeout, the checks inside the try, the catch that
\* reports the extraction failure, and the provider setup.
BatLLM ==
    /\ handler = "getBatchInfo" /\ pc = "llm"
    /\ UNCHANGED pluginVars
    /\ \E ans \in LLMAnswers("getBatchInfo") :
        /\ llmAnswer' = ans
        /\ IF LLMFailed(ans) \/ NumberInvalid(ans.num)
           THEN /\ AwaitCallbackThenReturn(FALSE, Failure(BatchExtractError))
                /\ pc' = "done"
                /\ methodUsed' = methodUsed
           ELSE /\ pc' = "getBatchByNumber"
                /\ methodUsed' = SelectMethod(alchemyApiKey)
                /\ UNCHANGED <<cbLog, result>>
    /\ llmCalls' = llmCalls + 1
    /\ UNCHANGED <<alchemyApiKey, zkevmRpcUrl, handler, callback, text, netLog,
                   blockDetails, errorMessages>>

\* Lines 184-253: if (batchData) batchInfo = {...}; then the result handling.
\* batchData is "batch" (truthy) or "null".
BatFinish(batchData) ==
    IF batchData = "batch"
    THEN AwaitCallbackThenReturn(TRUE, ActionResult(TRUE, "none", "none", methodUsed))
    ELSE AwaitCallbackThenReturn(FALSE, Failure(BatchFailedError))

\* A getBatchInfo that sends zkevm_getBatchByNumber again when it throws.
BatGetBatchByNumberRetrying ==
    /\ handler = "getBatchInfo" /\ pc = "getBatchByNumber"
    /\ UNCHANGED pluginVars
    /\ \E o \in {"throw", "null", "batch"} :
        /\ netLog' = Append(netLog, Request(SelectProvider(alchemyApiKey),
                                             "zkevm_getBatchByNumber", o))
        /\ IF o = "throw"
           THEN pc' = "getBatchByNumber" /\ UNCHANGED <<cbLog, result>>
           ELSE pc' = "done" /\ BatFinish(o)
    /\ UNCHANGED <<alchemyApiKey, zkevmRpcUrl, handler, callback, text, llmCalls,
                   llmAnswer, methodUsed, blockDetails, errorMessages>>

\* A getBatchInfo that also tries zkevm_getBatch after an empty answer.
BatGetBatchByNumberAlsoOnEmpty ==
    /\ handler = "getBatchInfo" /\ pc = "getBatchByNumber"
    /\ UNCHANGED pluginVars
    /\ \E o \in {"throw", "null", "batch"} :
        /\ netLog' = Append(netLog, Request(SelectProvider(alchemyApiKey),
                                             "zkevm_getBatchByNumber", o))
        /\ IF o \in {"throw", "null"}
           THEN pc' = "getBatch" /\ UNCHANGED <<cbLog, result>>
           ELSE pc' = "done" /\ BatFinish(o)
    /\ UNCHANGED <<alchemyApiKey, zkevmRpcUrl, handler, callback, text, llmCalls,
                   llmAnswer, methodUsed, blockDetails, errorMessages>>

\* Lines 148-165 and 184-253: provider.send("zkevm_getBatchByNumber"); a throw
\* leads to the alternative method, any answer to the result handling.
BatGetBatchByNumber ==
    /\ handler = "getBatchInfo" /\ pc = "getBatchByNumber"
    /\ UNCHANGED pluginVars
    /\ \E o \in {"throw", "null", "batch"} :
        /\ netLog' = Append(netLog, Request(SelectProvider(alchemyApiKey),
                                             "zkevm_getBatchByNumber", o))
        /\ IF o = "throw"
           THEN pc' = "getBatch" /\ UNCHANGED <<cbLog, result>>
           ELSE pc' = "done" /\ BatFinish(o)
    /\ UNCHANGED <<alchemyApiKey, zkevmRpcUrl, handler, callback, text, llmCalls,
                   llmAnswer, methodUsed, blockDetails, errorMessages>>

\* A getBatchInfo that starts over with zkevm_getBatchByNumber for as long as
\* zkevm_getBatch answers nothing.
BatGetBatchStartingOver ==
    /\ handler = "getBatchInfo" /\ pc = "getBatch"
    /\ UNCHANGED pluginVars
    /\ \E o \in {"throw", "null", "batch"} :
        /\ netLog' = IF o = "null" THEN <<>>
                     ELSE Append(netLog, Request(SelectProvider(alchemyApiKey),
                                                 "zkevm_getBatch", o))
        /\ errorMessages' = IF o = "throw"
                            THEN Append(errorMessages, "Failed to get batch info")
                            ELSE errorMessages
        /\ IF o = "null"
           THEN pc' = "getBatchByNumber" /\ UNCHANGED <<cbLog, result>>
           ELSE pc' = "done" /\ BatFinish(o)
    /\ UNCHANGED <<alchemyApiKey, zkevmRpcUrl, handler, callback, text, llmCalls,
                   llmAnswer, methodUsed, blockDetails>>

\* Lines 165-253: provider.send("zkevm_getBatch") on the same provider; a throw
\* is rethrown, caught at line 194 and recorded, then the result handling.
BatGetBatch ==
    /\ handler = "getBatchInfo" /\ pc = "getBatch"
    /\ UNCHANGED pluginVars
    /\ \E o \in {"throw", "null", "batch"} :
        /\ netLog' = Append(netLog, Request(SelectProvider(alchemyApiKey), "zkevm_getBatch", o))
        /\ errorMessages' = IF o = "throw"
                            THEN Append(errorMessages, "Failed to get batch info")
                            ELSE errorMessages
        /\ BatFinish(o)
    /\ pc' = "done"
    /\ UNCHANGED <<alchemyApiKey, zkevmRpcUrl, handler, callback, text, llmCalls,
                   llmAnswer, methodUsed, blockDetails>>

Next ==
    \/ Invoke
    \/ GasConfig
    \/ GasLLM
    \/ GasPrice
    \/ GasFeeData
    \/ StorConfig
    \/ StorLLM
    \/ StorGetStorage
    \/ RcptMatch
    \/ RcptGetReceipt
    \/ BlkConfig
    \/ BlkLLM
    \/ BlkAlchemy
    \/ BlkRpc
    \/ BatConfig
    \/ BatLLM
    \/ BatGetBatchByNumber
    \/ BatGetBatch
    \/ Validate
    \/ PluginInit

Spec == Init /\ [][Next]_vars

\* A step of the running handler: the return or failure of the external call
\* it is waiting for, and the code up to its next call or its end.
HandlerStep ==
    \/ GasConfig \/ GasLLM \/ GasPrice \/ GasFeeData
    \/ StorConfig \/ StorLLM \/ StorGetStorage
    \/ RcptMatch \/ RcptGetReceipt
    \/ BlkConfig \/ BlkLLM \/ BlkAlchemy \/ BlkRpc
    \/ BatConfig \/ BatLLM \/ BatGetBatchByNumber \/ BatGetBatch

\* Every external call of a started handler eventually returns or fails.
SpecLive == Init /\ [][Next]_vars /\ WF_vars(HandlerStep)

\* plugin.init and validate over every kind of setting and environment value.
NextPlugin ==
    \/ PluginInit
    \/ Validate

SpecPlugin == PluginStart /\ [][NextPlugin]_vars

(***************************************************************************)
(* Properties                                                              *)
(***************************************************************************)
Done == pc = "done"
Returned == result.kind = "returned"
ReturnedFailure == result.kind = "returned" /\ ~result.success /\ result.error # "none"
ReturnedSuccess == result.kind = "returned" /\ result.success
NoCredentials == ~alchemyApiKey /\ ~zkevmRpcUrl
\* The places of the message text where "0x" and 64 hex digits begin.
HashStarts ==
    {i \in 1..Len(text.chars) :
        /\ i + 65 <= Len(text.chars)
        /\ text.chars[i] = "0" /\ text.chars[i + 1] = "x"
        /\ \A k \in (i + 2)..(i + 65) : text.chars[k] \in RegexHexChars}
TextHasHash == text.defined /\ HashStarts # {}
LLMAnswerFailed ==
    llmAnswer.kind = "threw" \/ (llmAnswer.kind = "object" /\ llmAnswer.error)
\* A failure of the callback that the handler gets to see: getGasPrice does not
\* await the callback, so only a synchronous throw reaches it.
CallbackFailureSeen ==
    \E i \in 1..Len(cbLog) :
        IF handler = "getGasPrice" THEN cbLog[i].outcome = "throw"
        ELSE cbLog[i].outcome # "ok"
ConfigCheckingHandlers ==
    {"getGasPrice", "getStorageAt", "getBlockDetailsByNumber", "getBatchInfo"}
ExtractingHandlers == {"getStorageAt", "getBlockDetailsByNumber", "getBatchInfo"}

\* C1 as stated: in getGasPrice, getStorageAt, getBlockDetailsByNumber and
\* getBatchInfo, with neither ALCHEMY_API_KEY nor ZKEVM_RPC_URL set the handler
\* returns success=false with the configuration error, and makes no LLM call
\* and no network call.
C1_AsStated ==
    (handler \in ConfigCheckingHandlers /\ NoCredentials)
        => /\ llmCalls = 0
           /\ netLog = <<>>
           /\ (Done => result = Failure(ConfigError))

\* C1 amended: with neither credential set these four handlers never call the
\* LLM and never send a network request; the handler ends at its first step,
\* having invoked the callback (when given) exactly once with success=false,
\* and returns success=false with the configuration error unless that callback
\* call failed, in which case it rejects with the callback's error.
C1_ConfigCheckFirst ==
    (handler \in ConfigCheckingHandlers /\ NoCredentials)
        => /\ llmCalls = 0
           /\ netLog = <<>>
           /\ pc \in {"start", "done"}
           /\ Done => /\ Len(cbLog) = (IF callback THEN 1 ELSE 0)
                      /\ \A i \in 1..Len(cbLog) : ~cbLog[i].success
                      /\ result = IF CallbackFailureSeen THEN Rejected("callback")
                                  ELSE Failure(ConfigError)

C1_Witness ==
    /\ handler = "getBatchInfo" /\ NoCredentials /\ Done
    /\ callback /\ cbLog = <<CbCall(FALSE, "ok")>>
    /\ result = Failure(ConfigError)

\* C2 as stated: getTransactionReceipt, invoked with neither ALCHEMY_API_KEY
\* nor ZKEVM_RPC_URL set, returns a missing-configuration failure and contacts
\* no RPC endpoint.  Stated here for a message that carries a transaction hash.
C2_ReceiptValidatesCredentials ==
    (handler = "getTransactionReceipt" /\ NoCredentials /\ TextHasHash)
        => /\ netLog = <<>>
           /\ (Done /\ callback /\ AllOk(cbLog)) => result = Failure(ConfigError)

\* C3 as stated: in getStorageAt, getBlockDetailsByNumber and getBatchInfo, if
\* the LLM call throws or returns an object with a truthy error field, the
\* handler returns success=false, invokes the callback (when given) with
\* success=false, and issues no network request.
C3_AsStated ==
    (handler \in ExtractingHandlers /\ LLMAnswerFailed)
        => /\ Done /\ ReturnedFailure
           /\ netLog = <<>>
           /\ callback => (Len(cbLog) = 1 /\ ~cbLog[1].success)

\* C3 amended: in these three handlers a failed LLM extraction ends the
\* invocation at once with no network request; the callback (when given) is
\* invoked exactly once, with success=false; the handler returns success=false
\* unless that callback call failed, in which case it rejects.
C3_LLMFailureReported ==
    (handler \in ExtractingHandlers /\ LLMAnswerFailed)
        => /\ Done
           /\ netLog = <<>>
           /\ llmCalls = 1
           /\ Len(cbLog) = (IF callback THEN 1 ELSE 0)
           /\ \A i \in 1..Len(cbLog) : ~cbLog[i].success
           /\ IF CallbackFailureSeen THEN result = Rejected("callback")
              ELSE ReturnedFailure

C3_Witness ==
    /\ handler = "getBlockDetailsByNumber"
    /\ llmAnswer.kind = "object" /\ llmAnswer.error /\ ~NumberInvalid(llmAnswer.num)
    /\ callback /\ cbLog = <<CbCall(FALSE, "ok")>>
    /\ result = Failure(BlockLLMError)

\* C4 as stated: if getGasPrice's LLM call throws or returns an object with an
\* error field, the handler returns a structured failure (success=false).
C4_AsStated ==
    (handler = "getGasPrice" /\ LLMAnswerFailed /\ Done) => ReturnedFailure

\* C4 amended: getGasPrice does not report an LLM failure.  When its LLM call
\* throws or returns an error field the handler goes on, without invoking the
\* callback, to send eth_gasPrice, and the outcome is decided by that request:
\* it returns success=true when eth_gasPrice answers (and the callback does not
\* throw), and fails only when eth_gasPrice fails or the callback throws.
C4_GasPriceIgnoresLLMFailure ==
    (handler = "getGasPrice" /\ LLMAnswerFailed)
        => /\ (pc = "gasPrice" => (result = Pending /\ cbLog = <<>>))
           /\ Done => /\ netLog # <<>>
                      /\ netLog[1].method = "eth_gasPrice"
                      /\ (netLog[1].outcome = "value" /\ ~CallbackFailureSeen)
                            => ReturnedSuccess
                      /\ ~ReturnedSuccess
                            => (netLog[1].outcome = "throw" \/ CallbackFailureSeen)

C4_Witness ==
    /\ handler = "getGasPrice" /\ llmAnswer.kind = "threw" /\ Done
    /\ Len(netLog) = 2 /\ ReturnedSuccess

\* C5: in getGasPrice, getBlockDetailsByNumber, getBatchInfo and
\* getTransactionReceipt, invoked with a callback that does not fail, when
\* every provider request the invocation made threw, the handler does not
\* reject: it resolves to a result with success=false and an error.
C5_NetworkFailureIsStructured ==
    (/\ handler \in {"getGasPrice", "getBlockDetailsByNumber", "getBatchInfo",
                     "getTransactionReceipt"}
     /\ callback /\ AllOk(cbLog)
     /\ netLog # <<>>
     /\ \A i \in 1..Len(netLog) : netLog[i].outcome = "throw")
        => /\ result.kind # "rejected"
           /\ Done => (ReturnedFailure /\ cbLog # <<>> /\ ~cbLog[Len(cbLog)].success)

C5_Witness ==
    /\ handler = "getBlockDetailsByNumber" /\ Done
    /\ callback /\ AllOk(cbLog)
    /\ Len(netLog) = 2 /\ netLog[1].outcome = "throw" /\ netLog[2].outcome = "throw"
    /\ result = Failure(BlockFailedError)

\* C6 as stated: if provider.getStorage throws, getStorageAt invokes the
\* callback (when given) with success=false and resolves to success=false
\* rather than rejecting.
C6_StorageFailureIsStructured ==
    (handler = "getStorageAt" /\ Done /\ netLog # <<>> /\ netLog[1].outcome = "throw")
        => /\ ReturnedFailure
           /\ callback => (cbLog # <<>> /\ ~cbLog[Len(cbLog)].success)

\* The provider answered without error but with no entity: a null receipt, no
\* block from any endpoint tried, a null batch.
NotFound ==
    /\ netLog # <<>>
    /\ CASE handler = "getTransactionReceipt" -> netLog[1].outcome = "null"
         [] handler = "getBlockDetailsByNumber" ->
                \A i \in 1..Len(netLog) : netLog[i].outcome \in {"empty", "null"}
         [] handler = "getBatchInfo" -> netLog[Len(netLog)].outcome = "null"
         [] OTHER -> FALSE

\* C7 as stated: when the provider answers with no entity (null receipt, no
\* block from every endpoint tried, null batch), the handler returns
\* success=false and the callback receives success=false.  Stated here for
\* invocations in which no callback call failed.
C7_NotFoundIsFailure ==
    (Done /\ NotFound /\ AllOk(cbLog))
        => /\ ReturnedFailure
           /\ callback => (cbLog # <<>> /\ ~cbLog[Len(cbLog)].success)

\* C8 as stated: in every action, when both ALCHEMY_API_KEY and ZKEVM_RPC_URL
\* are set and the request to Alchemy fails, the handler sends the request to
\* ZKEVM_RPC_URL before it reports a failure.
C8_RpcFallbackEverywhere ==
    (/\ Done /\ alchemyApiKey /\ zkevmRpcUrl
     /\ ReturnedFailure
     /\ \E i \in 1..Len(netLog) :
            netLog[i].endpoint = AlchemyEndpoint /\ netLog[i].outcome = "throw")
        => \E j \in 1..Len(netLog) : netLog[j].endpoint = RpcEndpoint

\* The provider requests each handler may make.
AllowedRequests ==
    CASE handler = "getGasPrice" -> {"eth_gasPrice", "getFeeData"}
      [] handler = "getStorageAt" -> {"getStorage"}
      [] handler = "getTransactionReceipt" -> {"getTransactionReceipt"}
      [] handler = "getBlockDetailsByNumber" -> {"eth_getBlockByNumber", "getBlock"}
      [] handler = "getBatchInfo" -> {"zkevm_getBatchByNumber", "zkevm_getBatch"}
      [] OTHER -> {}

C10_ReceiptStatusLine ==
    (/\ handler = "getTransactionReceipt" /\ Done /\ TextHasHash
     /\ netLog # <<>> /\ netLog[1].outcome = "value"
     /\ AllOk(cbLog))
        => /\ ReturnedSuccess
           /\ result.status = (IF netLog[1].status = Num(1) THEN "Success" ELSE "Failed")

\* C11: for each of the five actions, validate returns true if and only if at
\* least one of the settings ALCHEMY_API_KEY, ZKEVM_RPC_URL is truthy, whatever
\* the message, the state of a running handler and PRIVATE_KEY are; and a call
\* of validate changes nothing but its own return value.
C11_ValidateIffCredential ==
    /\ [](validateResult.action # "none"
            => (validateResult.value <=>
                  (runtimeSettings["ALCHEMY_API_KEY"].kind \in {"text", "url"}
                   \/ runtimeSettings["ZKEVM_RPC_URL"].kind \in {"text", "url"})))
    /\ [][validateResult' # validateResult
            => UNCHANGED <<alchemyApiKey, zkevmRpcUrl, handler, callback, text, pc,
                           llmCalls, llmAnswer, netLog, cbLog, methodUsed, blockDetails,
                           errorMessages, result, runtimeSettings, env,
                           configToValidate, initResult>>]_vars

C11_Witness ==
    /\ validateResult = [action |-> "getTransactionReceipt", value |-> TRUE]
    /\ ~alchemyApiKey /\ zkevmRpcUrl
    /\ runtimeSettings["PRIVATE_KEY"].kind = "absent"
    /\ pc = "done"

\* The value the code picks for a key, spelled out: the runtime setting when it
\* is a non-empty string, else the environment variable.
Picked(k) ==
    IF runtimeSettings[k].kind \in {"text", "url"} THEN runtimeSettings[k] ELSE env[k]
NonEmpty(v) == v.kind \in {"text", "url"}
InitRan == initResult # "none"

\* C12 as stated: init fails with 'Invalid Polygon zkEVM plugin configuration:'
\* when neither ALCHEMY_API_KEY nor ZKEVM_RPC_URL is available from the runtime
\* settings or the environment, and succeeds when at least one valid provider
\* credential (a non-empty key, a well-formed URL) is available, even if
\* PRIVATE_KEY is absent.
C12_AsStated ==
    InitRan =>
        /\ (\A k \in {"ALCHEMY_API_KEY", "ZKEVM_RPC_URL"} :
                ~NonEmpty(runtimeSettings[k]) /\ ~NonEmpty(env[k]))
              => initResult = InitError
        /\ (\/ NonEmpty(Picked("ALCHEMY_API_KEY"))
            \/ Picked("ZKEVM_RPC_URL").kind = "url")
              => initResult = "ok"

\* C12 amended: init fails with that Error when no provider credential is
\* available, and succeeds exactly when at least one is picked and every picked
\* value is valid: ALCHEMY_API_KEY and PRIVATE_KEY not the empty string,
\* ZKEVM_RPC_URL undefined or a well-formed URL.  PRIVATE_KEY may be absent.
C12_InitValidatesConfiguration ==
    InitRan =>
        /\ initResult \in {"ok", InitError}
        /\ (\A k \in {"ALCHEMY_API_KEY", "ZKEVM_RPC_URL"} :
                ~NonEmpty(runtimeSettings[k]) /\ ~NonEmpty(env[k]))
              => initResult = InitError
        /\ initResult = "ok" <=>
              /\ NonEmpty(Picked("ALCHEMY_API_KEY")) \/ NonEmpty(Picked("ZKEVM_RPC_URL"))
              /\ Picked("ALCHEMY_API_KEY").kind # "empty"
              /\ Picked("ZKEVM_RPC_URL").kind \in {"absent", "url"}
              /\ Picked("PRIVATE_KEY").kind # "empty"

C12_Witness ==
    /\ initResult = "ok"
    /\ runtimeSettings["ALCHEMY_API_KEY"].kind = "absent"
    /\ env["ALCHEMY_API_KEY"].kind = "text"
    /\ Picked("ZKEVM_RPC_URL").kind = "absent"
    /\ runtimeSettings["PRIVATE_KEY"].kind = "absent" /\ env["PRIVATE_KEY"].kind = "absent"

C15_SlotZeroServed ==
    (/\ handler = "getStorageAt" /\ Done /\ ~NoCredentials
     /\ llmAnswer.kind = "object" /\ ~llmAnswer.error /\ llmAnswer.address
     /\ llmAnswer.num \in {Num(0), Str(0)}
     /\ AllOk(cbLog))
        => /\ Len(netLog) = 1 /\ netLog[1].method = "getStorage"
           /\ netLog[1].outcome = "value" => ReturnedSuccess

\* C16: the callback is optional for every handler.  Invoked without a
\* callback on a message that has a text, no handler throws because the
\* callback is missing.
C16_CallbackOptional ==
    (Done /\ ~callback /\ text.defined) => ~(result.kind = "rejected" /\ result.error = "TypeError")

\* The requests of the invocation that went to an endpoint.
RequestsTo(endpoint) == {i \in 1..Len(netLog) : netLog[i].endpoint = endpoint}
AlchemyGaveBlock ==
    \E i \in RequestsTo(AlchemyEndpoint) : netLog[i].outcome = "result"
\* The extraction gave a block / batch number that the handler accepts.
NumberAccepted ==
    /\ llmAnswer.kind = "object" /\ ~llmAnswer.error
    /\ llmAnswer.num.t = "number" /\ ~llmAnswer.num.nan /\ llmAnswer.num.v # 0

\* C17: in a getBlockDetailsByNumber invocation that reaches the block lookup,
\* the Alchemy request is made iff ALCHEMY_API_KEY is set and before any RPC
\* request; the RPC request to ZKEVM_RPC_URL is made iff ZKEVM_RPC_URL is set
\* and Alchemy produced no block; and a returned block is reported with the
\* method of the endpoint that supplied it.
C17_BlockFallbackOrder ==
    (handler = "getBlockDetailsByNumber" /\ Done /\ ~NoCredentials /\ NumberAccepted) =>
        /\ (RequestsTo(AlchemyEndpoint) # {}) <=> alchemyApiKey
        /\ \A i \in RequestsTo(AlchemyEndpoint), j \in RequestsTo(RpcEndpoint) : i < j
        /\ (RequestsTo(RpcEndpoint) # {}) <=> (zkevmRpcUrl /\ ~AlchemyGaveBlock)
        /\ RequestsTo(AlchemyEndpoint) \cup RequestsTo(RpcEndpoint) = 1..Len(netLog)
        /\ ReturnedSuccess =>
              \/ /\ result.method = "alchemy" /\ AlchemyGaveBlock
              \/ /\ result.method = "rpc" /\ ~AlchemyGaveBlock
                 /\ \E j \in RequestsTo(RpcEndpoint) : netLog[j].outcome = "block"

C17_Witness ==
    /\ handler = "getBlockDetailsByNumber" /\ Done
    /\ alchemyApiKey /\ zkevmRpcUrl /\ NumberAccepted
    /\ Len(netLog) = 2
    /\ netLog[1].endpoint = AlchemyEndpoint /\ netLog[1].outcome = "notOk"
    /\ netLog[2].endpoint = RpcEndpoint /\ netLog[2].outcome = "block"
    /\ ReturnedSuccess /\ result.method = "rpc"

SingleEndpointHandlers ==
    {"getGasPrice", "getStorageAt", "getBatchInfo", "getTransactionReceipt"}
\* The invocation got as far as its provider.
ReachedProvider ==
    CASE handler = "getGasPrice" -> ~NoCredentials
      [] handler = "getStorageAt" ->
            /\ ~NoCredentials /\ llmAnswer.kind = "object" /\ ~llmAnswer.error
            /\ llmAnswer.address /\ Truthy(llmAnswer.num)
      [] handler = "getBatchInfo" -> ~NoCredentials /\ NumberAccepted
      [] handler = "getTransactionReceipt" -> TextHasHash
      [] OTHER -> FALSE

NumberHandlers == {"getBlockDetailsByNumber", "getBatchInfo"}

\* C19 as stated: in getBlockDetailsByNumber and getBatchInfo a network request
\* is issued only if the extracted number is of type number, non-zero and not
\* NaN; for every other extraction result the handler returns success=false
\* without any network request.
C19_AsStated ==
    (handler \in NumberHandlers /\ Done /\ ~NoCredentials) =>
        /\ netLog # <<>> => NumberAccepted
        /\ ~NumberAccepted => (netLog = <<>> /\ ReturnedFailure)

\* C19 amended: a network request is issued only if the extracted number is of
\* type number, non-zero and not NaN; for every other extraction result no
\* network request is made, the callback (when given) is called once with
\* success=false, and the handler returns success=false unless that callback
\* call failed, in which case it rejects.
C19_NumberValidation ==
    (handler \in NumberHandlers /\ Done /\ ~NoCredentials) =>
        /\ netLog # <<>> => NumberAccepted
        /\ ~NumberAccepted =>
              /\ netLog = <<>>
              /\ Len(cbLog) = (IF callback THEN 1 ELSE 0)
              /\ \A i \in 1..Len(cbLog) : ~cbLog[i].success
              /\ IF CallbackFailureSeen THEN result = Rejected("callback")
                 ELSE ReturnedFailure

C19_Witness ==
    /\ handler = "getBatchInfo" /\ Done /\ ~NoCredentials
    /\ llmAnswer.kind = "object" /\ ~llmAnswer.error /\ llmAnswer.num = Num(0)
    /\ netLog = <<>>
    /\ callback /\ AllOk(cbLog)
    /\ ReturnedFailure

\* A JSON-RPC quantity: "0x", then at least one hexadecimal digit, no sign and
\* no leading zero (zero itself is "0x0").
IsHexDigit(c) == \E d \in 1..Len(HexDigits) : HexDigits[d] = c
WellFormedQuantity(s) ==
    /\ Len(s) >= 3 /\ s[1] = "0" /\ s[2] = "x"
    /\ \A i \in 3..Len(s) : IsHexDigit(s[i])
    /\ Len(s) > 3 => s[3] # "0"
RECURSIVE DigitsValue(_)
DigitsValue(ds) ==
    IF ds = <<>> THEN 0
    ELSE DigitsValue(SubSeq(ds, 1, Len(ds) - 1)) * Radix
         + (CHOOSE d \in 0..(Radix - 1) : HexDigits[d + 1] = ds[Len(ds)])
QuantityValue(s) == DigitsValue(SubSeq(s, 3, Len(s)))

\* C20: for every block number that passes getBlockDetailsByNumber's
\* validation, negative integers included, the block parameter sent to Alchemy
\* in eth_getBlockByNumber is a well-formed hex quantity whose value is the
\* extracted block number.
C20_BlockParamIsQuantity ==
    \A i \in 1..Len(netLog) :
        netLog[i].method = "eth_getBlockByNumber" =>
            /\ WellFormedQuantity(netLog[i].param)
            /\ QuantityValue(netLog[i].param) = llmAnswer.num.v

\* The same for the block numbers above zero: 26 is sent as "0x1a".
C20_PositiveNumbersAreQuantities ==
    \A i \in 1..Len(netLog) :
        (netLog[i].method = "eth_getBlockByNumber" /\ llmAnswer.num.v > 0) =>
            /\ WellFormedQuantity(netLog[i].param)
            /\ QuantityValue(netLog[i].param) = llmAnswer.num.v

BatchRequestsInOrder ==
    /\ Len(netLog) \in {1, 2}
    /\ netLog[1].method = "zkevm_getBatchByNumber"
    /\ (Len(netLog) = 2) <=> (netLog[1].outcome = "throw")
    /\ Len(netLog) = 2 =>
          /\ netLog[2].method = "zkevm_getBatch"
          /\ netLog[2].endpoint = netLog[1].endpoint
GotBatch == \E i \in 1..Len(netLog) : netLog[i].outcome = "batch"

\* C21 as stated: in a getBatchInfo invocation that reaches its provider,
\* zkevm_getBatchByNumber is sent first; zkevm_getBatch is sent iff it threw,
\* to the same provider; an empty answer without a throw ends in success=false
\* with zkevm_getBatch not tried; and the handler returns success=true iff one
\* of the two methods returned a truthy batch object.
C21_AsStated ==
    (handler = "getBatchInfo" /\ Done /\ ~NoCredentials /\ NumberAccepted) =>
        /\ BatchRequestsInOrder
        /\ netLog[1].outcome = "null" => ReturnedFailure
        /\ ReturnedSuccess <=> GotBatch

\* C21 amended: the same order of requests; and the handler returns
\* success=true when one of the two methods returned a truthy batch object and
\* success=false otherwise (an empty answer included), unless the callback
\* call fails, in which case the handler rejects.
C21_BatchMethodOrder ==
    (handler = "getBatchInfo" /\ Done /\ ~NoCredentials /\ NumberAccepted) =>
        /\ BatchRequestsInOrder
        /\ Len(cbLog) = (IF callback THEN 1 ELSE 0)
        /\ \A i \in 1..Len(cbLog) : cbLog[i].success <=> GotBatch
        /\ IF CallbackFailureSeen THEN result = Rejected("callback")
           ELSE IF GotBatch THEN ReturnedSuccess ELSE ReturnedFailure

C21_Witness ==
    /\ handler = "getBatchInfo" /\ Done
    /\ ~alchemyApiKey /\ zkevmRpcUrl /\ NumberAccepted
    /\ Len(netLog) = 2
    /\ netLog[1].method = "zkevm_getBatchByNumber" /\ netLog[1].outcome = "throw"
    /\ netLog[2].method = "zkevm_getBatch" /\ netLog[2].outcome = "batch"
    /\ netLog[2].endpoint = RpcEndpoint
    /\ ReturnedSuccess

GasRequestsInOrder ==
    /\ Len(netLog) \in {1, 2}
    /\ netLog[1].method = "eth_gasPrice"
    /\ (Len(netLog) = 2) <=> (netLog[1].outcome = "value")
    /\ Len(netLog) = 2 => netLog[2].method = "getFeeData"
CallbackThrew == \E i \in 1..Len(cbLog) : cbLog[i].outcome = "throw"

\* C22 as stated: in a getGasPrice invocation that reaches its provider,
\* eth_gasPrice is sent first and getFeeData only after it succeeded; a failure
\* of getFeeData never fails the action (success=true is returned); a failure
\* of eth_gasPrice always yields success=false, with getFeeData never called.
C22_AsStated ==
    (handler = "getGasPrice" /\ Done /\ ~NoCredentials) =>
        /\ GasRequestsInOrder
        /\ (Len(netLog) = 2 /\ netLog[2].outcome = "throw") => ReturnedSuccess
        /\ netLog[1].outcome = "throw" => ReturnedFailure

\* C22 amended: the same order of requests; after eth_gasPrice succeeded the
\* handler returns success=true whether or not getFeeData failed, and after
\* eth_gasPrice failed it returns success=false, in both cases unless the
\* callback throws synchronously: a throw while delivering the success message
\* is answered by the catch block (a second callback call with success=false,
\* then success=false), and a throw inside the catch block makes the handler
\* reject.
C22_FeeDataOptional ==
    (handler = "getGasPrice" /\ Done /\ ~NoCredentials) =>
        /\ GasRequestsInOrder
        /\ netLog[1].outcome = "throw" =>
              /\ Len(cbLog) = (IF callback THEN 1 ELSE 0)
              /\ IF CallbackThrew THEN result = Rejected("callback") ELSE ReturnedFailure
        /\ Len(netLog) = 2 =>
              IF ~CallbackThrew
              THEN ReturnedSuccess /\ Len(cbLog) = (IF callback THEN 1 ELSE 0)
              ELSE /\ Len(cbLog) = 2
                   /\ cbLog[1].success /\ cbLog[1].outcome = "throw" /\ ~cbLog[2].success
                   /\ IF cbLog[2].outcome = "throw" THEN result = Rejected("callback")
                      ELSE ReturnedFailure

C22_Witness ==
    /\ handler = "getGasPrice" /\ Done
    /\ Len(netLog) = 2
    /\ netLog[1].outcome = "value"
    /\ netLog[2].method = "getFeeData" /\ netLog[2].outcome = "throw"
    /\ callback /\ AllOk(cbLog) /\ Len(cbLog) = 1
    /\ ReturnedSuccess

\* C23: the handler resolves only after the callback call it made has settled,
\* so a failure of the asynchronous callback is observed by the handler: it
\* rejects, or its catch block reports the failure with a further callback
\* call.  For all five handlers, getGasPrice included.
C23_CallbackSettledBeforeReturn ==
    Done =>
        \A i \in 1..Len(cbLog) :
            cbLog[i].outcome = "reject" => (result.kind = "rejected" \/ i < Len(cbLog))

\* The same for the four handlers that await the callback.
C23_AwaitingHandlers ==
    (Done /\ handler # "getGasPrice") =>
        \A i \in 1..Len(cbLog) :
            cbLog[i].outcome = "reject" => (result.kind = "rejected" \/ i < Len(cbLog))

\* C24: when a callback is supplied and never fails, every invocation that
\* returns an ActionResult has invoked the callback exactly once, and the
\* success flag passed to the callback equals the success flag of the result.
C24_CallbackExactlyOnce ==
    (Done /\ Returned /\ callback /\ \A i \in 1..Len(cbLog) : cbLog[i].outcome = "ok") =>
        /\ Len(cbLog) = 1
        /\ cbLog[1].success = result.success

C24_Witness ==
    /\ handler = "getStorageAt" /\ Done /\ callback
    /\ Len(netLog) = 1 /\ netLog[1].outcome = "value"
    /\ cbLog = <<CbCall(TRUE, "ok")>>
    /\ ReturnedSuccess

\* The handler got to see the failure of its i-th callback call.
SeenFailure(i) ==
    IF handler = "getGasPrice" THEN cbLog[i].outcome = "throw" ELSE cbLog[i].outcome # "ok"
CatchingHandlers == {"getTransactionReceipt", "getGasPrice"}

\* C25 as stated: in getTransactionReceipt (and in getGasPrice for a
\* synchronous throw) a callback failure while delivering the success message
\* is caught by the handler's catch block, which calls the callback a second
\* time with an error message and returns success=false; in getStorageAt,
\* getBlockDetailsByNumber and getBatchInfo a callback failure makes the
\* handler reject after at most one callback call.
C25_AsStated ==
    (Done /\ Len(cbLog) >= 1 /\ SeenFailure(1)) =>
        IF handler \in CatchingHandlers
        THEN cbLog[1].success =>
                (Len(cbLog) = 2 /\ ~cbLog[2].success /\ ReturnedFailure)
        ELSE Len(cbLog) = 1 /\ result = Rejected("callback")

\* C25 amended: as stated, except that the second callback call, made in the
\* catch block, can fail too; the handler returns success=false when that
\* second call does not fail and rejects when it does.
C25_CallbackFailureHandling ==
    (Done /\ Len(cbLog) >= 1 /\ SeenFailure(1)) =>
        IF handler \in CatchingHandlers
        THEN cbLog[1].success =>
                /\ Len(cbLog) = 2 /\ ~cbLog[2].success
                /\ IF SeenFailure(2) THEN result = Rejected("callback")
                   ELSE ReturnedFailure
        ELSE Len(cbLog) = 1 /\ result = Rejected("callback")

C25_Witness ==
    /\ handler = "getTransactionReceipt" /\ Done
    /\ Len(netLog) = 1 /\ netLog[1].outcome = "value"
    /\ cbLog = <<CbCall(TRUE, "reject"), CbCall(FALSE, "ok")>>
    /\ result = Failure(ReceiptCatchError)

\* C26: every ActionResult returned by any of the five handlers has
\* success=false iff its `error` field is present, iff values.error is true and
\* data.error is set; and data.actionName is the name of the action that
\* produced it.
C26_ResultConsistency ==
    (Done /\ Returned) =>
        /\ ~result.success <=> result.hasError
        /\ result.hasError <=> (result.valuesError /\ result.error # "none")
        /\ result.success => (~result.valuesError /\ result.error = "none")
        /\ result.actionName = ActionNames[handler]

C26_Witness ==
    /\ handler = "getTransactionReceipt" /\ Done /\ Returned
    /\ Len(netLog) = 1 /\ netLog[1].outcome = "null"
    /\ ~result.success /\ result.hasError /\ result.valuesError
    /\ result.error = ReceiptNotFoundError
    /\ result.actionName = "POLYGON_ZKEVM_GET_TRANSACTION_RECEIPT"

\* External calls made so far by the invocation: LLM, provider, callback.
ExternalCalls == llmCalls + Len(netLog) + Len(cbLog)

\* C27: every handler invocation terminates.  With every external call
\* eventually returning or failing, a started handler eventually resolves or
\* rejects, after at most five external calls, and once it has, it does nothing
\* more.
C27_Terminates ==
    /\ (pc = "start") ~> (Done /\ result.kind \in {"returned", "rejected"})
    /\ [](ExternalCalls <= 5)
    /\ [][pc = "done" => UNCHANGED <<pc, llmCalls, netLog, cbLog, result>>]_vars

C27_Witness ==
    /\ handler = "getGasPrice" /\ Done
    /\ llmCalls = 1 /\ Len(netLog) = 2 /\ Len(cbLog) = 2
    /\ result.kind = "rejected"

\* C28: getTransactionReceipt issues its request iff the message text contains
\* "0x" followed by 64 hex digits; the hash it queries is the leftmost such
\* substring, cut after 64 digits; and with no such substring it returns
\* success=false and makes no provider request.
C28_HashExtraction ==
    (handler = "getTransactionReceipt" /\ Done /\ text.defined /\ AllOk(cbLog)) =>
        /\ (netLog # <<>>) <=> (HashStarts # {})
        /\ \A n \in 1..Len(netLog) :
              /\ netLog[n].method = "getTransactionReceipt"
              /\ \E i \in HashStarts :
                    /\ \A j \in HashStarts : i <= j
                    /\ netLog[n].param = SubSeq(text.chars, i, i + 65)
        /\ HashStarts = {} => ReturnedFailure

\* The same with a callback supplied.
C28_WithCallback ==
    (handler = "getTransactionReceipt" /\ Done /\ text.defined /\ AllOk(cbLog) /\ callback) =>
        /\ (netLog # <<>>) <=> (HashStarts # {})
        /\ \A n \in 1..Len(netLog) :
              /\ netLog[n].method = "getTransactionReceipt"
              /\ \E i \in HashStarts :
                    /\ \A j \in HashStarts : i <= j
                    /\ netLog[n].param = SubSeq(text.chars, i, i + 65)
        /\ HashStarts = {} => ReturnedFailure

\* C29: init validates each supplied credential on its own: when the
\* ZKEVM_RPC_URL it picks is a string that is no well-formed URL, init fails
\* with 'Invalid Polygon zkEVM plugin configuration: ...', even when a valid
\* ALCHEMY_API_KEY is supplied too; and init changes no setting and no plugin
\* state, whether it succeeds or fails.
C29_InitValidatesEachCredential ==
    /\ [](initResult # "none" =>
            ((\/ runtimeSettings["ZKEVM_RPC_URL"].kind = "text"
              \/ /\ runtimeSettings["ZKEVM_RPC_URL"].kind \in {"absent", "empty"}
                 /\ env["ZKEVM_RPC_URL"].kind = "text")
                => initResult = InitError))
    /\ [][initResult' # initResult =>
            UNCHANGED <<runtimeSettings, env, alchemyApiKey, zkevmRpcUrl, validateResult,
                        handler, callback, text, pc, llmCalls, llmAnswer, netLog, cbLog,
                        methodUsed, blockDetails, errorMessages, result>>]_vars

C29_Witness ==
    /\ initResult = InitError
    /\ runtimeSettings["ALCHEMY_API_KEY"].kind = "text"
    /\ runtimeSettings["ZKEVM_RPC_URL"].kind = "absent"
    /\ env["ZKEVM_RPC_URL"].kind = "text"
    /\ runtimeSettings["PRIVATE_KEY"].kind = "absent" /\ env["PRIVATE_KEY"].kind = "absent"
    /\ validateResult.action = "none"

====
